---- MODULE Spec2Model ----
(***************************************************************************)
(* Model of the two algorithmic components of lapd-plasma-analysis:        *)
(*   - get_mach_numbers / get_velocity      (src/mach/velocity.py)         *)
(*   - interferometry_calibration           (src/interferometry.py)        *)
(*                                                                         *)
(* Floating-point values are modelled as exact rationals <<n, d>> in       *)
(* lowest terms with d > 0, extended by the three IEEE specials            *)
(*   <<0, 0>> = NaN,  <<1, 0>> = +inf,  <<-1, 0>> = -inf.                    *)
(* Rounding is not modelled.                                               *)
(***************************************************************************)
EXTENDS Integers, Sequences, FiniteSets, TLC

----------------------------------------------------------------------------
(* Extended rational arithmetic (numpy float semantics without rounding)   *)

Abs(n) == IF n < 0 THEN -n ELSE n

Sgn(n) == IF n < 0 THEN -1 ELSE IF n > 0 THEN 1 ELSE 0

RECURSIVE GCD(_, _)
GCD(a, b) == IF b = 0 THEN a ELSE GCD(b, a % b)

NaN == <<0, 0>>
PInf == <<1, 0>>
NInf == <<-1, 0>>
Zero == <<0, 1>>
One == <<1, 1>>
Two == <<2, 1>>

R(n) == <<n, 1>>

IsNaN(a) == a = NaN
IsFinite(a) == a[2] # 0
IsInf(a) == a[2] = 0 /\ a[1] # 0

\* lowest terms, positive denominator (d # 0)
RNorm(n, d) ==
    LET g == GCD(Abs(n), Abs(d))
        s == IF d < 0 THEN -1 ELSE 1
    IN  <<s * (n \div g), s * (d \div g)>>

RNeg(a) == <<-a[1], a[2]>>

RAdd(a, b) ==
    IF IsNaN(a) \/ IsNaN(b) THEN NaN
    ELSE IF IsInf(a) THEN (IF IsInf(b) /\ b # a THEN NaN ELSE a)
    ELSE IF IsInf(b) THEN b
    ELSE LET g == GCD(a[2], b[2])
         IN  RNorm(a[1] * (b[2] \div g) + b[1] * (a[2] \div g), a[2] * (b[2] \div g))

RSub(a, b) == RAdd(a, RNeg(b))

RMul(a, b) ==
    IF IsNaN(a) \/ IsNaN(b) THEN NaN
    ELSE IF IsInf(a) \/ IsInf(b)
         THEN (IF a[1] = 0 \/ b[1] = 0 THEN NaN ELSE <<Sgn(a[1]) * Sgn(b[1]), 0>>)
    ELSE LET g1 == GCD(Abs(a[1]), b[2])
             g2 == GCD(Abs(b[1]), a[2])
         IN  RNorm((a[1] \div g1) * (b[1] \div g2), (a[2] \div g2) * (b[2] \div g1))

\* x / 0 is +-inf, 0 / 0 is NaN: numpy warns and carries on
RDiv(a, b) ==
    IF IsNaN(a) \/ IsNaN(b) THEN NaN
    ELSE IF IsInf(a) THEN (IF IsInf(b) THEN NaN
                           ELSE <<a[1] * (IF b[1] < 0 THEN -1 ELSE 1), 0>>)
    ELSE IF IsInf(b) THEN Zero
    ELSE IF b[1] = 0 THEN (IF a[1] = 0 THEN NaN ELSE <<Sgn(a[1]), 0>>)
    ELSE RMul(a, RNorm(b[2], b[1]))

\* comparisons with NaN are False
RLt(a, b) ==
    IF IsNaN(a) \/ IsNaN(b) THEN FALSE
    ELSE IF IsInf(a) THEN a = NInf /\ b # NInf
    ELSE IF IsInf(b) THEN b = PInf
    ELSE a[1] * b[2] < b[1] * a[2]

RGt(a, b) == RLt(b, a)

RAbs(a) == <<Abs(a[1]), a[2]>>

RPos(a) == RGt(a, Zero)

RECURSIVE SumSeq(_)
SumSeq(s) == IF s = <<>> THEN Zero ELSE RAdd(Head(s), SumSeq(Tail(s)))

\* mean with skipna=True, the default of xarray's .mean(): NaN entries are
\* left out, and the mean of nothing is NaN
MeanSkipNa(s) ==
    LET v == SelectSeq(s, LAMBDA e : ~IsNaN(e))
    IN  IF v = <<>> THEN NaN ELSE RDiv(SumSeq(v), R(Len(v)))

\* exact square root of a rational whose numerator and denominator are squares
ISqrt(n) == CHOOSE k \in 0..n : k * k = n
RSqrt(a) ==
    IF IsNaN(a) \/ a = NInf THEN NaN
    ELSE IF a = PInf THEN PInf
    ELSE IF a[1] < 0 THEN NaN
    ELSE <<ISqrt(a[1]), ISqrt(a[2])>>

\* np.log on the values 0, +-2^k: the result is in units of ln 2
RECURSIVE Log2Int(_)
Log2Int(n) == IF n <= 1 THEN 0 ELSE 1 + Log2Int(n \div 2)
Log(a) ==
    IF IsNaN(a) THEN NaN
    ELSE IF a = PInf THEN PInf
    ELSE IF a[1] < 0 THEN NaN
    ELSE IF a[1] = 0 THEN NInf
    ELSE R(Log2Int(a[1]) - Log2Int(a[2]))

----------------------------------------------------------------------------
(* Bounds                                                                  *)

\* ion saturation currents are -1, 0 and 2^k for k in 0..MaxExp
MaxExp == 1

RECURSIVE Pow2(_)
Pow2(k) == IF k = 0 THEN 1 ELSE 2 * Pow2(k - 1)

Currents == {R(-1), R(0)} \cup {R(Pow2(k)) : k \in 0..MaxExp}

Faces == 1..6

----------------------------------------------------------------------------
VARIABLES
    pc,                 \* position in the pipeline being run
    faces,              \* coordinate values on the face axis of mach_isat_da
    mach_isat_da,       \* face -> current, one element of the other axes
    mach_ds,            \* result of get_mach_numbers: variable name -> value
    crunched_mach_ds,   \* mach_ds re-gridded onto the sound speed's axes
    sound_speed,        \* C_s at the element
    velocity,           \* result of get_velocity: variable name -> value
    density_xarray,     \* <<i, j, p>> -> n_e [1/m^3] at x[i], y[j], time[p]
    x,                  \* x coordinate values [cm]
    y,                  \* y coordinate values [cm]
    time,               \* density time coordinate [ms]; plateau p is sample p
    steady_state,       \* <<steady_state_start, steady_state_end>>
    core_region,        \* core_region.value [cm]
    inter_data,         \* interferometry values, one per interferometry sample
    inter_time,         \* inter_data.coords['time'] [ms]
    has_xy,             \* <<has_x, has_y>>
    inter_collapse_time,
    dt,
    core,               \* <<x indices, y indices>> kept by where(..., drop=True)
    core_density_array, \* <<i, j, p>> -> density [1/cm^3] over the kept indices
    aligned_times,      \* "x" -> inter_data.coords['x_time'], "y" -> ...['y_time']
    integral,           \* "x" -> x_integral (<<j, p>> -> value), "y" -> y_integral
    inter_avg,          \* "x" -> inter_avg_x_time (p -> value), "y" -> ..._y_time
    density_scaling,    \* "x" -> (<<j, p>> -> factor), "y" -> (<<i, p>> -> factor)
    density_scale_factor,       \* <<axis, <<c, p>> -> factor>>
    calibrated_density_xarray   \* <<i, j, p>> -> value over the aligned indices

machvars == <<faces, mach_isat_da, mach_ds, crunched_mach_ds, sound_speed, velocity>>

calinputs == <<density_xarray, x, y, time, steady_state, core_region, inter_data>>

callocals == <<inter_time, has_xy, inter_collapse_time, dt, core, core_density_array,
               aligned_times, integral, inter_avg, density_scaling, density_scale_factor,
               calibrated_density_xarray>>

vars == <<pc, machvars, calinputs, callocals>>

Empty == [k \in {} |-> NaN]

----------------------------------------------------------------------------
(* get_mach_numbers: values of M_para are in units of ln 2, values of the  *)
(* three M_perp outputs in units of ln 2 * cos(pi/4)                       *)

magnetization_factor == <<1, 2>>

\* np.cos(angle_fore) = np.cos(angle_aft) = cos(pi/4), the unit of M_perp
cos_angle == One

sel(da, face) == da[face]

\* ln(a) - ln(b) in place of ln(a / b)
parallel_mach_split(da) ==
    RMul(magnetization_factor, RSub(Log(sel(da, 2)), Log(sel(da, 5))))

parallel_mach(da) ==
    RMul(magnetization_factor, Log(RDiv(sel(da, 2), sel(da, 5))))

mach_correction_fore(da) ==
    RMul(magnetization_factor, Log(RDiv(sel(da, 3), sel(da, 6))))

\* face 1 paired with face 6 in place of face 4
mach_correction_aft_mispaired(da) ==
    RMul(magnetization_factor, Log(RDiv(sel(da, 1), sel(da, 6))))

mach_correction_aft(da) ==
    RMul(magnetization_factor, Log(RDiv(sel(da, 1), sel(da, 4))))

perpendicular_mach_fore(da) ==
    RMul(RSub(parallel_mach(da), mach_correction_fore(da)), cos_angle)

perpendicular_mach_aft(da) ==
    RMul(RSub(parallel_mach(da), mach_correction_aft(da)), cos_angle)

perpendicular_mach(da) ==
    MeanSkipNa(<<perpendicular_mach_fore(da), perpendicular_mach_aft(da)>>)

\* np.isin(np.array([1, 3, 4, 6]), mach_isat_da.face).all()
has_perp_faces(fs) == \A f \in {1, 3, 4, 6} : f \in fs

\* the two directional estimates left out of the dataset
get_mach_numbers_perp_only(fs, da) ==
    IF has_perp_faces(fs)
    THEN ("M_para" :> parallel_mach(da)) @@ ("M_perp" :> perpendicular_mach(da))
    ELSE ("M_para" :> parallel_mach(da))

get_mach_numbers(fs, da) ==
    IF has_perp_faces(fs)
    THEN ("M_para" :> parallel_mach(da)) @@
         ("M_perp" :> perpendicular_mach(da)) @@
         ("M_perp_fore" :> perpendicular_mach_fore(da)) @@
         ("M_perp_aft" :> perpendicular_mach_aft(da))
    ELSE ("M_para" :> parallel_mach(da))

----------------------------------------------------------------------------
(* get_velocity: speeds are in units of sqrt(1 eV / 1 kg) expressed in m/s, *)
(* the factor of line 139                                                   *)

ion_adiabatic_index == 3

\* langmuir.helper.ion_temperature, in eV
ion_temperature == 1

reindex_tolerance == 3

\* electron temperatures [eV] and ion masses for which the sound speed is rational
Temperatures == {R(1), R(6)}
IonMasses == {R(4)}
Ports == {27, 31}

speed_unit == One

get_sound_speed(electron_temperature, ion_mass) ==
    RMul(RSqrt(RDiv(RAdd(electron_temperature, R(ion_adiabatic_index * ion_temperature)),
                    ion_mass)),
         speed_unit)

\* langmuir.helper.crunch_data: every variable of the dataset is re-gridded onto
\* the target time axis; a target time with no Mach sample in its bucket is
\* undefined
crunch_data(ds, in_bucket) ==
    [k \in DOMAIN ds |-> IF in_bucket THEN ds[k] ELSE NaN]

\* swap_dims("port").reindex_like(..., method="nearest", tolerance=3)
reindex_like(ds, mach_port, langmuir_port) ==
    [k \in DOMAIN ds |->
        IF Abs(mach_port - langmuir_port) <= reindex_tolerance THEN ds[k] ELSE NaN]

\* v_perp taken from the fore estimate, and gated on it
get_velocity_fore(crunched, c_s) ==
    IF "M_perp_fore" \in DOMAIN crunched
    THEN ("v_para" :> RMul(crunched["M_para"], c_s)) @@
         ("v_perp" :> RMul(crunched["M_perp_fore"], c_s))
    ELSE ("v_para" :> RMul(crunched["M_para"], c_s))

get_velocity(crunched, c_s) ==
    IF "M_perp" \in DOMAIN crunched
    THEN ("v_para" :> RMul(crunched["M_para"], c_s)) @@
         ("v_perp" :> RMul(crunched["M_perp"], c_s))
    ELSE ("v_para" :> RMul(crunched["M_para"], c_s))

----------------------------------------------------------------------------
(* The Mach pipeline: get_mach_numbers, then get_velocity on its result     *)

\* interferometry_calibration has not been called
CalIdle ==
    /\ density_xarray = Empty
    /\ x = <<>>
    /\ y = <<>>
    /\ time = <<>>
    /\ steady_state = <<0, 0>>
    /\ core_region = 0
    /\ inter_data = <<>>
    /\ inter_time = <<>>
    /\ has_xy = <<FALSE, FALSE>>
    /\ inter_collapse_time = NaN
    /\ dt = NaN
    /\ core = <<{}, {}>>
    /\ core_density_array = Empty
    /\ aligned_times = Empty
    /\ integral = Empty
    /\ inter_avg = Empty
    /\ density_scaling = Empty
    /\ density_scale_factor = <<"none", Empty>>
    /\ calibrated_density_xarray = Empty

InitMach ==
    /\ pc = "input"
    /\ CalIdle
    /\ faces \in SUBSET Faces
    /\ mach_isat_da \in [faces -> Currents]
    /\ mach_ds = Empty
    /\ crunched_mach_ds = Empty
    /\ sound_speed = NaN
    /\ velocity = Empty

GetMachNumbers ==
    /\ pc = "input"
    /\ {2, 5} \subseteq faces
    /\ mach_ds' = get_mach_numbers(faces, mach_isat_da)
    /\ pc' = "mach"
    /\ UNCHANGED <<faces, mach_isat_da, crunched_mach_ds, sound_speed, velocity>>
    /\ UNCHANGED <<calinputs, callocals>>

\* .sel(face=2) or .sel(face=5) on an array without that face raises KeyError
GetMachNumbersKeyError ==
    /\ pc = "input"
    /\ ~({2, 5} \subseteq faces)
    /\ pc' = "error"
    /\ UNCHANGED <<faces, mach_isat_da, mach_ds, crunched_mach_ds, sound_speed, velocity>>
    /\ UNCHANGED <<calinputs, callocals>>

GetVelocity ==
    /\ pc = "mach"
    /\ \E electron_temperature \in Temperatures, ion_mass \in IonMasses,
          mach_port \in Ports, langmuir_port \in Ports, in_bucket \in BOOLEAN :
          /\ sound_speed' = get_sound_speed(electron_temperature, ion_mass)
          /\ crunched_mach_ds' =
                reindex_like(crunch_data(mach_ds, in_bucket), mach_port, langmuir_port)
          /\ velocity' = get_velocity(crunched_mach_ds', sound_speed')
    /\ pc' = "velocity"
    /\ UNCHANGED <<faces, mach_isat_da, mach_ds>>
    /\ UNCHANGED <<calinputs, callocals>>

NextMach == GetMachNumbers \/ GetMachNumbersKeyError \/ GetVelocity

SpecMach == InitMach /\ [][NextMach]_vars

----------------------------------------------------------------------------
(* Properties of get_mach_numbers and get_velocity                          *)

MachDone == pc \in {"mach", "velocity"}

PerpNames == {"M_perp", "M_perp_fore", "M_perp_aft"}

C3_PerpGate ==
    /\ pc = "error" => ~({2, 5} \subseteq faces)
    /\ MachDone =>
        /\ "M_para" \in DOMAIN mach_ds
        /\ ({1, 3, 4, 6} \subseteq faces) => DOMAIN mach_ds = {"M_para"} \cup PerpNames
        /\ ~({1, 3, 4, 6} \subseteq faces) => DOMAIN mach_ds = {"M_para"}

C3_Witness ==
    /\ pc = "mach"
    /\ faces = {1, 2, 3, 5, 6}
    /\ DOMAIN mach_ds = {"M_para"}

\* C9: get_velocity always returns v_para = M_para * C_s; it returns
\* v_perp = M_perp * C_s if and only if the Mach dataset contains M_perp; and
\* M_perp_fore and M_perp_aft produce no velocity output.
C9_Velocity ==
    pc = "velocity" =>
        /\ DOMAIN crunched_mach_ds = DOMAIN mach_ds
        /\ "v_para" \in DOMAIN velocity
        /\ velocity["v_para"] = RMul(crunched_mach_ds["M_para"], sound_speed)
        /\ "v_perp" \in DOMAIN velocity <=> "M_perp" \in DOMAIN mach_ds
        /\ "v_perp" \in DOMAIN velocity =>
                velocity["v_perp"] = RMul(crunched_mach_ds["M_perp"], sound_speed)
        /\ DOMAIN velocity \subseteq {"v_para", "v_perp"}

C9_Witness ==
    /\ pc = "velocity"
    /\ "M_perp_fore" \in DOMAIN mach_ds
    /\ "v_perp" \in DOMAIN velocity
    /\ IsFinite(velocity["v_perp"]) /\ velocity["v_perp"] # Zero
    /\ crunched_mach_ds["M_perp_fore"] # crunched_mach_ds["M_perp"]
    /\ IsFinite(velocity["v_para"]) /\ velocity["v_para"] # Zero

\* C10 as claimed: wherever the face-2 current equals the face-5 current, for
\* every value of the common current including 0, M_para is exactly 0.
C10_Original ==
    (MachDone /\ mach_isat_da[2] = mach_isat_da[5]) => mach_ds["M_para"] = Zero

\* C10 amended: wherever the face-2 current equals the face-5 current and that
\* common current is nonzero, M_para is exactly 0; where both are 0 the ratio is
\* 0/0 and M_para is undefined (NaN).
C10_ParaZero ==
    (MachDone /\ mach_isat_da[2] = mach_isat_da[5]) =>
        /\ mach_isat_da[2] # Zero => mach_ds["M_para"] = Zero
        /\ mach_isat_da[2] = Zero => mach_ds["M_para"] = NaN

C10_Witness ==
    /\ pc = "mach"
    /\ mach_isat_da[2] = R(-1) /\ mach_isat_da[5] = R(-1)
    /\ mach_ds["M_para"] = Zero

----------------------------------------------------------------------------
(* interferometry_calibration: helpers                                      *)

\* time_factor of to_real_units_interferometry: 4.88e-5 s, in ms
time_factor == <<61, 1250>>

\* (1 / u.m ** 3).to(1 / u.cm ** 3).value
density_unit == <<1, 1000000>>

max_gap == 10

Min(S) == CHOOSE a \in S : \A b \in S : a <= b
Max(S) == CHOOSE a \in S : \A b \in S : a >= b

RECURSIVE SortedSeq(_)
SortedSeq(S) == IF S = {} THEN <<>> ELSE <<Min(S)>> \o SortedSeq(S \ {Min(S)})

\* inter_time_abstract * time_factor, for np.arange(n)
to_real_units_time(n) == [k \in 1..n |-> RMul(R(k - 1), time_factor)]

\* np.gradient(f, t, edge_order=1) on an evenly spaced coordinate
differentiate(f, t) ==
    LET n == Len(f)
    IN  [k \in 1..n |->
            IF k = 1 THEN RDiv(RSub(f[2], f[1]), RSub(t[2], t[1]))
            ELSE IF k = n THEN RDiv(RSub(f[n], f[n - 1]), RSub(t[n], t[n - 1]))
            ELSE RDiv(RSub(f[k + 1], f[k - 1]), RSub(t[k + 1], t[k - 1]))]

\* index of the first minimum, NaN skipped; 0 when every element is NaN
FirstMin(f) ==
    LET valid == {k \in DOMAIN f : ~IsNaN(f[k])}
        best == {k \in valid : \A q \in valid : ~RLt(f[q], f[k])}
    IN  IF valid = {} THEN 0 ELSE Min(best)

\* index of the first maximum, NaN skipped; 0 when every element is NaN
FirstMax(f) ==
    LET valid == {k \in DOMAIN f : ~IsNaN(f[k])}
        best == {k \in valid : \A q \in valid : ~RGt(f[q], f[k])}
    IN  IF valid = {} THEN 0 ELSE Min(best)

idxmin(f, coord) ==
    LET k == FirstMin(f) IN IF k = 0 THEN NaN ELSE coord[k]

idxmax(f, coord) ==
    LET k == FirstMax(f) IN IF k = 0 THEN NaN ELSE coord[k]

\* dt of line 63: total time elapsed over the number of time measurements
time_step(t) == RDiv(RSub(t[Len(t)], t[1]), R(Len(t)))

\* a disk of radius r in place of the two per-axis masks
core_mask_disk(xv, yv, r) == xv * xv + yv * yv < r * r

\* both(x_mask, y_mask) of lines 68-69
core_mask(xv, yv, r) == Abs(xv) < r /\ Abs(yv) < r

\* where(cond, drop=True): the labels at which cond holds somewhere are kept
where_drop(xs, ys, r) ==
    <<{i \in DOMAIN xs : \E j \in DOMAIN ys : core_mask(xs[i], ys[j], r)},
      {j \in DOMAIN ys : \E i \in DOMAIN xs : core_mask(xs[i], ys[j], r)}>>

\* density_data.where(both(x_mask, y_mask), drop=True)
where_core(density_data, xs, ys, nt, r) ==
    LET kept == where_drop(xs, ys, r)
    IN  [idx \in kept[1] \X kept[2] \X (1..nt) |->
            IF core_mask(xs[idx[1]], ys[idx[2]], r) THEN density_data[idx] ELSE NaN]

\* interpolate_na(dim='x', use_coordinate=True, max_gap=10.): a NaN between two
\* valid neighbours at most max_gap apart in x is filled linearly
interpolate_na(a, kept_x, xs) ==
    [idx \in DOMAIN a |->
        IF ~IsNaN(a[idx]) THEN a[idx]
        ELSE LET left == {l \in kept_x : l < idx[1] /\ ~IsNaN(a[<<l, idx[2], idx[3]>>])}
                 right == {r \in kept_x : r > idx[1] /\ ~IsNaN(a[<<r, idx[2], idx[3]>>])}
             IN  IF left = {} \/ right = {} THEN NaN
                 ELSE LET l == Max(left)
                          r == Min(right)
                          al == a[<<l, idx[2], idx[3]>>]
                          ar == a[<<r, idx[2], idx[3]>>]
                      IN  IF xs[r] - xs[l] > max_gap THEN NaN
                          ELSE RAdd(al, RDiv(RMul(RSub(ar, al), R(xs[idx[1]] - xs[l])),
                                             R(xs[r] - xs[l])))]

\* each interval taken from the higher index to the lower
RECURSIVE trapz_reversed(_, _, _)
trapz_reversed(f, c, idxs) ==
    IF Len(idxs) < 2 THEN Zero
    ELSE RAdd(RDiv(RMul(R(c[idxs[1]] - c[idxs[2]]), RAdd(f[idxs[2]], f[idxs[1]])), Two),
              trapz_reversed(f, c, Tail(idxs)))

\* trapezoidal rule over the indices idxs (in axis order) against coordinate c
RECURSIVE trapz(_, _, _)
trapz(f, c, idxs) ==
    IF Len(idxs) < 2 THEN Zero
    ELSE RAdd(RDiv(RMul(R(c[idxs[2]] - c[idxs[1]]), RAdd(f[idxs[2]], f[idxs[1]])), Two),
              trapz(f, c, Tail(idxs)))

\* core_density_array.integrate('x'): <<j, p>> -> value
integrate_x(a, kept, xs, nt) ==
    [jp \in kept[2] \X (1..nt) |->
        trapz([i \in kept[1] |-> a[<<i, jp[1], jp[2]>>]], xs, SortedSeq(kept[1]))]

\* core_density_array.integrate('y'): <<i, p>> -> value
integrate_y(a, kept, ys, nt) ==
    [ip \in kept[1] \X (1..nt) |->
        trapz([j \in kept[2] |-> a[<<ip[1], j, ip[2]>>]], ys, SortedSeq(kept[2]))]

\* time of the maximum along the time axis for each remaining label, averaged
density_collapse_time(line_integral, labels, t) ==
    LET ls == SortedSeq(labels)
    IN  MeanSkipNa([n \in 1..Len(ls) |->
                      idxmax([q \in 1..Len(t) |-> line_integral[<<ls[n], q>>]], t)])

\* the start of the trace, in place of its collapse, put at the density collapse
aligned_time_from_start(it, inter_collapse, density_collapse) ==
    [k \in DOMAIN it |-> RAdd(RSub(it[k], it[1]), density_collapse)]

\* inter_data.coords['time'] - inter_collapse_time + density_collapse_time
aligned_time(it, inter_collapse, density_collapse) ==
    [k \in DOMAIN it |-> RAdd(RSub(it[k], inter_collapse), density_collapse)]

\* a bucket of half-width 2 dt
in_bucket_wide(xt, t, step) ==
    RGt(xt, RSub(t, RMul(step, Two))) /\ RLt(xt, RAdd(t, RMul(step, Two)))

\* both(x_time > t - dt / 2, x_time < t + dt / 2)
in_bucket(xt, t, step) ==
    RGt(xt, RSub(t, RDiv(step, Two))) /\ RLt(xt, RAdd(t, RDiv(step, Two)))

\* an empty bucket filled with 0
bucket_means_zero_fill(values, xt, t, step) ==
    [q \in 1..Len(t) |->
        LET m == MeanSkipNa([k \in 1..Len(values) |->
                                IF in_bucket(xt[k], t[q], step) THEN values[k] ELSE NaN])
        IN  IF IsNaN(m) THEN Zero ELSE m]

\* inter_data.where(...).mean() for each t of the density time coordinate
bucket_means(values, xt, t, step) ==
    [q \in 1..Len(t) |->
        MeanSkipNa([k \in 1..Len(values) |->
                       IF in_bucket(xt[k], t[q], step) THEN values[k] ELSE NaN])]

\* inter_avg / line integral, elementwise over plateau
scaling(avg, line_integral) ==
    [cp \in DOMAIN line_integral |-> RDiv(avg[cp[2]], line_integral[cp])]

BoolInt(b) == IF b THEN 1 ELSE 0

\* the product of the two flags in place of their sum
active_axes_product(hx, hy) == BoolInt(hx) * BoolInt(hy)

\* (has_x + has_y) of line 125: the number of active axes
active_axes(hx, hy) == BoolInt(hx) + BoolInt(hy)

\* lines 124-125: a conditional expression binds loosest, so the expression is
\*   (sx if has_x else ((0 + sy) if has_y else 0)) / (has_x + has_y)
\* (hx or hy holds: the other case divides the integer 0 by 0)
scale_factor(ds, hx, hy) ==
    IF hx
    THEN <<"x", [c \in DOMAIN ds["x"] |-> RDiv(ds["x"][c], R(active_axes(hx, hy)))]>>
    ELSE <<"y", [c \in DOMAIN ds["y"] |->
                    RDiv(RAdd(Zero, ds["y"][c]), R(active_axes(hx, hy)))]>>

\* the factor that multiplies the sample at <<i, j, p>>
FactorAt(factor, idx) ==
    IF factor[1] = "x" THEN factor[2][<<idx[2], idx[3]>>]
    ELSE factor[2][<<idx[1], idx[3]>>]

\* density_xarray * density_scale_factor: the labels of the shared axis are joined
\* (inner join), the other axes broadcast
aligned_indices(factor, nx, ny, nt) ==
    IF factor[1] = "x"
    THEN {idx \in (1..nx) \X (1..ny) \X (1..nt) : <<idx[2], idx[3]>> \in DOMAIN factor[2]}
    ELSE {idx \in (1..nx) \X (1..ny) \X (1..nt) : <<idx[1], idx[3]>> \in DOMAIN factor[2]}

\* the upper bound of the window taken exclusive
in_steady_state_exclusive(plateau, ss) == plateau >= ss[1] /\ plateau < ss[2]

\* both(plateau >= steady_state_start, plateau <= steady_state_end)
in_steady_state(plateau, ss) == plateau >= ss[1] /\ plateau <= ss[2]

\* samples without a usable factor left at their uncalibrated value
calibrate_unscaled_gaps(density, factor, nx, ny, nt, ss) ==
    [idx \in aligned_indices(factor, nx, ny, nt) |->
        IF in_steady_state(idx[3], ss)
        THEN IF IsFinite(FactorAt(factor, idx))
             THEN RMul(density[idx], FactorAt(factor, idx))
             ELSE density[idx]
        ELSE NaN]

\* (density_xarray * density_scale_factor).where(...)
calibrate(density, factor, nx, ny, nt, ss) ==
    [idx \in aligned_indices(factor, nx, ny, nt) |->
        IF in_steady_state(idx[3], ss)
        THEN RMul(density[idx], FactorAt(factor, idx))
        ELSE NaN]

----------------------------------------------------------------------------
(* interferometry_calibration: inputs                                       *)

\* longest x or y axis, most density time samples, interferometry samples
MaxAxis == 3
MaxTime == 3
MaxInter == 6

\* positions [cm]: 0 and 20 lie in the default core region, 30 and beyond do not
Coord(i) == IF i = 1 THEN 0 ELSE 10 * i

AxisAscending(n) == [i \in 1..n |-> Coord(i)]
AxisDescending(n) == [i \in 1..n |-> Coord(n + 1 - i)]

\* the x index must be increasing for interpolate_na to accept it (line 72)
XAxes == {AxisAscending(n) : n \in 1..MaxAxis}
YAxes == XAxes \cup {AxisDescending(n) : n \in 1..MaxAxis}

\* density times are multiples of the interferometry sampling period: evenly
\* spaced by one or two periods, or with a last step of more than twice dt
TimeGrid(nt, kind) ==
    [q \in 1..nt |->
        RMul(time_factor,
             IF kind = "unit" THEN R(9 + q)
             ELSE IF kind = "double" THEN R(8 + 2 * q)
             ELSE IF q < nt \/ nt = 1 THEN R(9 + q) ELSE R(15 + q))]

TimeGrids == {TimeGrid(nt, kind) : nt \in 1..MaxTime, kind \in {"unit", "double", "skewed"}}

\* n_e [1/m^3]: a plane in x and y, doubled at plateau pk
DensityField(nx, ny, nt, ax, ay, pk) ==
    [idx \in (1..nx) \X (1..ny) \X (1..nt) |->
        R(1000000 * (1 + ax * idx[1] + ay * idx[2]) * (IF idx[3] = pk THEN 2 ELSE 1))]

\* interferometry trace: 4 before sample c, 2 from sample c on
InterTrace(c) == [k \in 1..MaxInter |-> IF k < c THEN R(4) ELSE R(2)]

InterTraces == {InterTrace(c) : c \in {2, MaxInter - 1}}

Windows == {<<1, 1>>, <<2, MaxTime>>}

CalLocalsInit ==
    /\ inter_time = <<>>
    /\ has_xy = <<FALSE, FALSE>>
    /\ inter_collapse_time = NaN
    /\ dt = NaN
    /\ core = <<{}, {}>>
    /\ core_density_array = Empty
    /\ aligned_times = Empty
    /\ integral = Empty
    /\ inter_avg = Empty
    /\ density_scaling = Empty
    /\ density_scale_factor = <<"none", Empty>>
    /\ calibrated_density_xarray = Empty

MachIdle ==
    /\ faces = {}
    /\ mach_isat_da = Empty
    /\ mach_ds = Empty
    /\ crunched_mach_ds = Empty
    /\ sound_speed = NaN
    /\ velocity = Empty

InitCal ==
    /\ pc = "cal_input"
    /\ MachIdle
    /\ x \in XAxes
    /\ y \in YAxes
    /\ time \in TimeGrids
    /\ \E ax \in 0..1, ay \in 0..1, pk \in {1, Len(time)} :
          density_xarray = DensityField(Len(x), Len(y), Len(time), ax, ay, pk)
    /\ steady_state \in Windows
    /\ core_region = 26
    /\ inter_data \in InterTraces
    /\ CalLocalsInit

----------------------------------------------------------------------------
(* interferometry_calibration, statement by statement                      *)

density_data == [idx \in DOMAIN density_xarray |-> RMul(density_xarray[idx], density_unit)]

\* lines 30-40: the trace in real units on its own time axis
ReadInterferometry ==
    /\ pc = "cal_input"
    /\ inter_time' = to_real_units_time(Len(inter_data))
    /\ pc' = "cal_read"
    /\ UNCHANGED <<machvars, calinputs, has_xy, inter_collapse_time, dt, core,
                   core_density_array, aligned_times, integral, inter_avg, density_scaling,
                   density_scale_factor, calibrated_density_xarray>>

\* an axis of any length counted as active
has_axis_nonempty(size) == size > 0

\* lines 48-49: density_data.sizes[axis] > 1
has_axis(size) == size > 1

\* lines 46-63: active axes, interferometry collapse time, density time step
FindAxesAndCollapse ==
    /\ pc = "cal_read"
    /\ has_xy' = <<has_axis(Len(x)), has_axis(Len(y))>>
    /\ inter_collapse_time' = idxmin(differentiate(inter_data, inter_time), inter_time)
    /\ dt' = time_step(time)
    /\ pc' = "cal_aligned"
    /\ UNCHANGED <<machvars, calinputs, inter_time, core, core_density_array,
                   aligned_times, integral,
                   inter_avg, density_scaling, density_scale_factor,
                   calibrated_density_xarray>>

\* lines 67-72: the core region, NaN gaps along x filled
SelectCore ==
    /\ pc = "cal_aligned"
    /\ core' = where_drop(x, y, core_region)
    /\ core_density_array' =
          interpolate_na(where_core(density_data, x, y, Len(time), core_region), core'[1], x)
    /\ pc' = "cal_core"
    /\ UNCHANGED <<machvars, calinputs, inter_time, has_xy, inter_collapse_time, dt,
                   aligned_times, integral, inter_avg, density_scaling, density_scale_factor,
                   calibrated_density_xarray>>

\* lines 76-98
ScaleX ==
    /\ pc = "cal_core"
    /\ has_xy[1]
    /\ LET x_integral == integrate_x(core_density_array, core, x, Len(time))
           density_collapse_time_x == density_collapse_time(x_integral, core[2], time)
           x_time == aligned_time(inter_time, inter_collapse_time, density_collapse_time_x)
           inter_avg_x_time == bucket_means(inter_data, x_time, time, dt)
       IN  /\ aligned_times' = ("x" :> x_time) @@ aligned_times
           /\ integral' = ("x" :> x_integral) @@ integral
           /\ inter_avg' = ("x" :> inter_avg_x_time) @@ inter_avg
           /\ density_scaling' = ("x" :> scaling(inter_avg_x_time, x_integral)) @@ density_scaling
    /\ pc' = "cal_x"
    /\ UNCHANGED <<machvars, calinputs, inter_time, has_xy, inter_collapse_time, dt, core,
                   core_density_array, density_scale_factor, calibrated_density_xarray>>

SkipX ==
    /\ pc = "cal_core"
    /\ ~has_xy[1]
    /\ pc' = "cal_x"
    /\ UNCHANGED <<machvars, calinputs, callocals>>

\* lines 100-118
ScaleY ==
    /\ pc = "cal_x"
    /\ has_xy[2]
    /\ LET y_integral == integrate_y(core_density_array, core, y, Len(time))
           density_collapse_time_y == density_collapse_time(y_integral, core[1], time)
           y_time == aligned_time(inter_time, inter_collapse_time, density_collapse_time_y)
           inter_avg_y_time == bucket_means(inter_data, y_time, time, dt)
       IN  /\ aligned_times' = ("y" :> y_time) @@ aligned_times
           /\ integral' = ("y" :> y_integral) @@ integral
           /\ inter_avg' = ("y" :> inter_avg_y_time) @@ inter_avg
           /\ density_scaling' = ("y" :> scaling(inter_avg_y_time, y_integral)) @@ density_scaling
    /\ pc' = "cal_y"
    /\ UNCHANGED <<machvars, calinputs, inter_time, has_xy, inter_collapse_time, dt, core,
                   core_density_array, density_scale_factor, calibrated_density_xarray>>

SkipY ==
    /\ pc = "cal_x"
    /\ ~has_xy[2]
    /\ pc' = "cal_y"
    /\ UNCHANGED <<machvars, calinputs, callocals>>

\* lines 124-131
Calibrate ==
    /\ pc = "cal_y"
    /\ has_xy[1] \/ has_xy[2]
    /\ density_scale_factor' = scale_factor(density_scaling, has_xy[1], has_xy[2])
    /\ calibrated_density_xarray' =
          calibrate(density_xarray, density_scale_factor', Len(x), Len(y), Len(time),
                    steady_state)
    /\ pc' = "cal_done"
    /\ UNCHANGED <<machvars, calinputs, inter_time, has_xy, inter_collapse_time, dt, core,
                   core_density_array, aligned_times, integral, inter_avg,
                   density_scaling>>

\* line 125 with neither axis active: 0 / (False + False) raises ZeroDivisionError
CalibrateZeroDivision ==
    /\ pc = "cal_y"
    /\ ~has_xy[1] /\ ~has_xy[2]
    /\ active_axes(has_xy[1], has_xy[2]) = 0
    /\ pc' = "cal_error"
    /\ UNCHANGED <<machvars, calinputs, callocals>>

NextCal ==
    \/ ReadInterferometry
    \/ FindAxesAndCollapse
    \/ SelectCore
    \/ ScaleX
    \/ SkipX
    \/ ScaleY
    \/ SkipY
    \/ Calibrate
    \/ CalibrateZeroDivision

SpecCal == InitCal /\ [][NextCal]_vars

\* The example of a constant field: n_e = 5 everywhere on axes spanning 400000 cm,
\* so that each line integral of the density in 1/cm^3 is 2, and a constant
\* interferometry trace of 4
ExampleAxes == {<<0>>, <<-200000, 200000>>}

InitExample ==
    /\ pc = "cal_input"
    /\ MachIdle
    /\ x \in ExampleAxes
    /\ y \in ExampleAxes
    /\ time \in TimeGrids
    /\ density_xarray = [idx \in (1..Len(x)) \X (1..Len(y)) \X (1..Len(time)) |-> R(5)]
    /\ steady_state \in Windows
    /\ core_region = 200001
    /\ inter_data = [k \in 1..MaxInter |-> R(4)]
    /\ CalLocalsInit

SpecExample == InitExample /\ [][NextCal]_vars

----------------------------------------------------------------------------
(* Properties of interferometry_calibration                                 *)

Scaled == pc \in {"cal_y", "cal_done"}

Active == {a \in {"x", "y"} : (a = "x" /\ has_xy[1]) \/ (a = "y" /\ has_xy[2])}

\* C1: the combined scaling factor applied to the density is the elementwise
\* mean (x_factor + y_factor) / 2 when both axes are active, and the one axis's
\* factor unchanged when exactly one axis is active.
C1_CombinedFactor ==
    pc = "cal_done" =>
        \A idx \in DOMAIN calibrated_density_xarray :
            LET jp == <<idx[2], idx[3]>>
                ip == <<idx[1], idx[3]>>
                applied == FactorAt(density_scale_factor, idx)
            IN  /\ (has_xy[1] /\ has_xy[2] /\ ip \in DOMAIN density_scaling["y"]) =>
                    applied = RDiv(RAdd(density_scaling["x"][jp], density_scaling["y"][ip]), Two)
                /\ (has_xy[1] /\ ~has_xy[2]) => applied = density_scaling["x"][jp]
                /\ (~has_xy[1] /\ has_xy[2]) => applied = density_scaling["y"][ip]

\* C4: in the calibrated density, every sample whose plateau lies outside
\* [steady_state_start, steady_state_end] is undefined, and every sample whose
\* plateau lies inside (bounds included) is the original density value, whether
\* or not inside the core region, times the combined scaling factor.
C4_SteadyStateMask ==
    pc = "cal_done" =>
        /\ \A idx \in DOMAIN calibrated_density_xarray :
            IF idx[3] < steady_state[1] \/ idx[3] > steady_state[2]
            THEN calibrated_density_xarray[idx] = NaN
            ELSE calibrated_density_xarray[idx] =
                    RMul(density_xarray[idx], FactorAt(density_scale_factor, idx))
        /\ \A idx \in DOMAIN density_xarray :
            (idx[2] \in core[2] /\ has_xy[1]) => idx \in DOMAIN calibrated_density_xarray

C4_Witness ==
    /\ pc = "cal_done"
    /\ \E idx \in DOMAIN calibrated_density_xarray :
        /\ Abs(x[idx[1]]) >= core_region
        /\ idx[3] = steady_state[2]
        /\ IsFinite(calibrated_density_xarray[idx])
        /\ calibrated_density_xarray[idx] # Zero
    /\ \E idx \in DOMAIN calibrated_density_xarray :
        /\ idx[3] < steady_state[1]
        /\ IsFinite(FactorAt(density_scale_factor, idx))
        /\ calibrated_density_xarray[idx] = NaN

\* C5: with every line integral of the density equal to 2, the re-binned
\* interferometry trace equal to 4 at every density time and the original density
\* equal to 5 everywhere, every scaling factor is 2 and the calibrated density is
\* 10 at every sample inside the steady-state window and undefined outside it.
C5_Example ==
    (/\ pc = "cal_done"
     /\ \A idx \in DOMAIN density_xarray : density_xarray[idx] = R(5)
     /\ \A a \in Active : \A c \in DOMAIN integral[a] : integral[a][c] = R(2)
     /\ \A a \in Active : \A q \in DOMAIN inter_avg[a] : inter_avg[a][q] = R(4))
    => /\ \A a \in Active : \A c \in DOMAIN density_scaling[a] : density_scaling[a][c] = R(2)
       /\ \A idx \in DOMAIN calibrated_density_xarray :
            calibrated_density_xarray[idx] =
                IF in_steady_state(idx[3], steady_state) THEN R(10) ELSE NaN

PositiveInputs ==
    /\ \A idx \in DOMAIN density_xarray : RPos(density_xarray[idx])
    /\ \A k \in DOMAIN inter_data : RPos(inter_data[k])

AllFactorsPositive ==
    \A a \in DOMAIN density_scaling : \A c \in DOMAIN density_scaling[a] :
        ~IsNaN(density_scaling[a][c]) => RPos(density_scaling[a][c])

Increasing(s) == \A i \in 1..(Len(s) - 1) : s[i] < s[i + 1]

\* C6 as claimed: for strictly positive density and interferometry values, every
\* defined element of each per-axis scaling factor is strictly positive, for any
\* ordering of the x / y coordinate values.
C6_Original == (Scaled /\ PositiveInputs) => AllFactorsPositive

\* C6 amended: for strictly positive density and interferometry values and
\* coordinate values in strictly increasing order along each integrated axis,
\* every defined element of each per-axis scaling factor is strictly positive
\* (+inf where the core holds fewer than two samples along the axis).
C6_PositiveWhenIncreasing ==
    (Scaled /\ PositiveInputs /\ Increasing(x) /\ Increasing(y)) => AllFactorsPositive

C6_Witness ==
    /\ pc = "cal_done" /\ PositiveInputs /\ Increasing(x) /\ Increasing(y)
    /\ has_xy = <<TRUE, TRUE>>
    /\ \E c \in DOMAIN density_scaling["x"] :
        IsFinite(density_scaling["x"][c]) /\ RPos(density_scaling["x"][c])
    /\ \E c \in DOMAIN density_scaling["y"] :
        IsFinite(density_scaling["y"][c]) /\ RPos(density_scaling["y"][c])

CoreSelected == pc \in {"cal_core", "cal_x", "cal_y", "cal_done", "cal_error"}

\* the samples that enter the line integrals
Contributes(i, j) ==
    \E q \in 1..Len(time) :
        <<i, j, q>> \in DOMAIN core_density_array /\ ~IsNaN(core_density_array[<<i, j, q>>])

\* C7 as claimed: the core region is a disk; a sample at (x, y) contributes to the
\* line integrals only if x^2 + y^2 < R^2.
C7_Original ==
    CoreSelected =>
        \A i \in DOMAIN x, j \in DOMAIN y :
            Contributes(i, j) => x[i] * x[i] + y[j] * y[j] < core_region * core_region

\* C7 amended: the core region is the square |x| < R and |y| < R; a sample
\* contributes to the line integrals if and only if it lies in that square, so
\* samples with |x| < R, |y| < R and x^2 + y^2 > R^2 are included.
C7_Square ==
    CoreSelected =>
        \A i \in DOMAIN x, j \in DOMAIN y :
            Contributes(i, j) <=> (Abs(x[i]) < core_region /\ Abs(y[j]) < core_region)

C7_Witness ==
    /\ pc = "cal_done"
    /\ \E i \in DOMAIN x, j \in DOMAIN y :
        /\ Contributes(i, j)
        /\ x[i] * x[i] + y[j] * y[j] > core_region * core_region
    /\ \E i \in DOMAIN x, j \in DOMAIN y : ~Contributes(i, j)

EvenGrid(t) == \A q \in 2..(Len(t) - 1) : RSub(t[q + 1], t[q]) = RSub(t[q], t[q - 1])

\* every shifted interferometry sample lies on the lattice of the even grid t, and
\* every time of t carries exactly one sample
OnGrid(xt, t) ==
    /\ Len(t) >= 2
    /\ EvenGrid(t)
    /\ \A k \in DOMAIN xt : RDiv(RSub(xt[k], t[1]), RSub(t[2], t[1]))[2] = 1
    /\ \A q \in DOMAIN t : Cardinality({k \in DOMAIN xt : xt[k] = t[q]}) = 1

SampleAt(xt, tq) == CHOOSE k \in DOMAIN xt : xt[k] = tq

\* C8: when the shifted interferometry samples lie exactly on an evenly spaced
\* density time grid of length >= 2, one sample per density time, the bucket
\* average at each density time equals the interferometry value at that time.
C8_RebinConservation ==
    \A a \in DOMAIN aligned_times :
        OnGrid(aligned_times[a], time) =>
            \A q \in DOMAIN time :
                inter_avg[a][q] = inter_data[SampleAt(aligned_times[a], time[q])]

C8_Witness ==
    /\ pc = "cal_done"
    /\ Len(time) >= 3
    /\ "x" \in DOMAIN aligned_times
    /\ OnGrid(aligned_times["x"], time)
    /\ inter_avg["x"][1] # inter_avg["x"][2]

\* C11: the returned scaling-factor mapping has key 'x' if and only if the x axis
\* of the density field has length > 1 and key 'y' if and only if the y axis has
\* length > 1, and the returned pair of booleans is (x length > 1, y length > 1).
C11_ScalingKeys ==
    pc = "cal_done" =>
        /\ ("x" \in DOMAIN density_scaling) <=> (Len(x) > 1)
        /\ ("y" \in DOMAIN density_scaling) <=> (Len(y) > 1)
        /\ has_xy = <<Len(x) > 1, Len(y) > 1>>

C11_Witness ==
    /\ pc = "cal_done"
    /\ Len(x) > 1 /\ Len(y) = 1
    /\ DOMAIN density_scaling = {"x"}
    /\ has_xy = <<TRUE, FALSE>>

\* C12 as claimed: in the calibrated density, every sample whose plateau lies
\* inside [steady_state_start, steady_state_end] is finite wherever the input
\* density field is finite at that sample.
C12_Original ==
    pc = "cal_done" =>
        \A idx \in DOMAIN calibrated_density_xarray :
            (in_steady_state(idx[3], steady_state) /\ IsFinite(density_xarray[idx]))
                => IsFinite(calibrated_density_xarray[idx])

\* C12 amended: in the calibrated density, a sample whose plateau lies inside the
\* steady-state window and whose input density is finite is finite exactly where
\* the combined scaling factor applied to it is finite; where the factor is
\* undefined (empty bucket) or infinite (zero line integral) so is the sample.
C12_FiniteWhereFactorFinite ==
    pc = "cal_done" =>
        \A idx \in DOMAIN calibrated_density_xarray :
            (in_steady_state(idx[3], steady_state) /\ IsFinite(density_xarray[idx]))
                => (IsFinite(calibrated_density_xarray[idx])
                        <=> IsFinite(FactorAt(density_scale_factor, idx)))

C12_Witness ==
    /\ pc = "cal_done"
    /\ \E idx \in DOMAIN calibrated_density_xarray :
        /\ in_steady_state(idx[3], steady_state)
        /\ IsFinite(density_xarray[idx])
        /\ IsNaN(FactorAt(density_scale_factor, idx))
        /\ IsNaN(calibrated_density_xarray[idx])
    /\ \E idx \in DOMAIN calibrated_density_xarray :
        /\ in_steady_state(idx[3], steady_state)
        /\ IsFinite(FactorAt(density_scale_factor, idx))
        /\ IsFinite(calibrated_density_xarray[idx])

\* the interferometry samples whose shifted time lies strictly within dt/2 of
\* density time q
Bucket(a, q) ==
    {k \in DOMAIN aligned_times[a] :
        RLt(RAbs(RSub(aligned_times[a][k], time[q])), RDiv(dt, Two))}

RECURSIVE SumOver(_, _)
SumOver(f, S) ==
    IF S = {} THEN Zero
    ELSE LET k == CHOOSE k \in S : TRUE IN RAdd(f[k], SumOver(f, S \ {k}))

\* C13: a density time sample whose bucket holds no interferometry sample gets an
\* undefined re-binned value and an undefined scaling factor at that sample; no
\* error is raised, and every other sample's re-binned value is the mean of the
\* interferometry values in its own bucket.
C13_EmptyBucket ==
    \A a \in DOMAIN aligned_times :
        /\ pc # "cal_error"
        /\ \A q \in DOMAIN time :
            IF Bucket(a, q) = {}
            THEN /\ IsNaN(inter_avg[a][q])
                 /\ \A c \in DOMAIN density_scaling[a] :
                        c[2] = q => IsNaN(density_scaling[a][c])
            ELSE inter_avg[a][q] =
                    RDiv(SumOver(inter_data, Bucket(a, q)), R(Cardinality(Bucket(a, q))))

C13_Witness ==
    /\ pc = "cal_done"
    /\ \E a \in DOMAIN aligned_times : \E q1, q2 \in DOMAIN time :
        /\ Bucket(a, q1) = {}
        /\ IsNaN(inter_avg[a][q1])
        /\ Bucket(a, q2) # {}
        /\ \E c \in DOMAIN density_scaling[a] :
            c[2] = q2 /\ IsFinite(density_scaling[a][c])

\* the density collapse time of axis a, from the line integral along a
DensityCollapse(a) ==
    density_collapse_time(integral[a], IF a = "x" THEN core[2] ELSE core[1], time)

\* the interferometry sample taken at the interferometry collapse time
CollapseSample == CHOOSE k \in DOMAIN inter_time : inter_time[k] = inter_collapse_time

\* C14: for each active axis every interferometry sample time is shifted by the
\* same offset, density collapse time minus interferometry collapse time, where
\* the interferometry collapse time is the time of the minimum numerical
\* derivative of the trace; the sample at the collapse gets the density collapse
\* time, and the spacing between the samples is unchanged.
C14_TimeAlignment ==
    \A a \in DOMAIN aligned_times :
        LET offset == RSub(DensityCollapse(a), inter_collapse_time)
            slope == differentiate(inter_data, inter_time)
            shifted == aligned_times[a]
        IN  /\ \E k \in DOMAIN inter_time : inter_time[k] = inter_collapse_time
            /\ \A k \in DOMAIN slope : ~RLt(slope[k], slope[CollapseSample])
            /\ DOMAIN shifted = DOMAIN inter_time
            /\ \A k \in DOMAIN inter_time : shifted[k] = RAdd(inter_time[k], offset)
            /\ shifted[CollapseSample] = DensityCollapse(a)
            /\ \A k \in 1..(Len(inter_time) - 1) :
                    RSub(shifted[k + 1], shifted[k]) = RSub(inter_time[k + 1], inter_time[k])

C14_Witness ==
    /\ pc = "cal_done"
    /\ has_xy = <<TRUE, TRUE>>
    /\ CollapseSample > 1
    /\ IsFinite(DensityCollapse("x")) /\ IsFinite(DensityCollapse("y"))
    /\ DensityCollapse("x") # inter_collapse_time
    /\ aligned_times["x"][CollapseSample] = DensityCollapse("x")
    /\ aligned_times["x"][1] # inter_time[1]

\* C15: when neither spatial axis is active (x and y both of length 1) the call
\* returns no result: the combination step divides by the number of active axes,
\* 0, and ends in a division-by-zero error; when at least one axis is active the
\* divisor is 1 or 2, the number of axes of length > 1, and the call returns.
C15_ZeroDivision ==
    LET n == BoolInt(Len(x) > 1) + BoolInt(Len(y) > 1)
    IN  /\ pc = "cal_error" =>
            /\ n = 0
            /\ density_scale_factor = <<"none", Empty>>
            /\ calibrated_density_xarray = Empty
        /\ pc = "cal_done" =>
            /\ n \in {1, 2}
            /\ \A idx \in DOMAIN calibrated_density_xarray :
                LET a == density_scale_factor[1]
                    c == IF a = "x" THEN <<idx[2], idx[3]>> ELSE <<idx[1], idx[3]>>
                IN  FactorAt(density_scale_factor, idx) = RDiv(density_scaling[a][c], R(n))

C15_Witness ==
    /\ pc = "cal_error"
    /\ Len(x) = 1 /\ Len(y) = 1
    /\ has_xy = <<FALSE, FALSE>>
    /\ density_scaling = Empty

\* the density time samples to whose bucket average sample k of axis a contributes
BucketsOf(a, k) == {q \in DOMAIN time : k \in Bucket(a, q)}

\* C16: with dt = (last density time - first density time) / (number of density
\* time samples), every shifted interferometry sample contributes to the bucket
\* average of at most one density time sample, for every strictly increasing
\* density time grid, evenly spaced or irregular.
C16_OneBucket ==
    \A a \in DOMAIN aligned_times :
        \A k \in DOMAIN aligned_times[a] : Cardinality(BucketsOf(a, k)) <= 1

====
